---- MODULE Spec2Model ----
(***************************************************************************)
(* Soft-delete middleware for the Prisma client (applyMiddleware).         *)
(*                                                                         *)
(* The repository holds two editions of applyMiddleware:                   *)
(*   "middleware.ts" : tombstone = deletedAt (null when live), an          *)
(*                     update-stamp stage, no skip list, no include stage; *)
(*   "part_000"      : tombstone = isDeleted/deletedAt, a skip list and an *)
(*                     include stage, update-stamping commented out.       *)
(* Each $use() callback is one action; a call walks the chain in           *)
(* registration order and then reaches the query executor.                 *)
(*                                                                         *)
(* JavaScript values are tagged records: [t |-> "undefined"],              *)
(* [t |-> "null"], booleans, strings, numbers, a Date, and objects, whose  *)
(* own enumerable properties are a sequence of [k, v] entries in insertion *)
(* order (the order Object.entries and for-in enumerate).                  *)
(***************************************************************************)
EXTENDS Integers, Sequences, FiniteSets, TLC

VARIABLES variant, pc, params, orig, prev, pass, store, result

vars == <<variant, pc, params, orig, prev, pass, store, result>>

-----------------------------------------------------------------------------
(* JavaScript values *)

Undef == [t |-> "undefined"]
Null == [t |-> "null"]
Bool(b) == [t |-> "boolean", b |-> b]
Str(s) == [t |-> "string", s |-> s]
Num(n) == [t |-> "number", n |-> n]
\* the value of `new Date()`
Now == [t |-> "date"]
Obj(es) == [t |-> "object", e |-> es]
EmptyObj == Obj(<<>>)
Entry(k, v) == [k |-> k, v |-> v]

\* typeof v
TypeOf(v) ==
  CASE v.t = "undefined" -> "undefined"
    [] v.t = "null" -> "object"
    [] v.t = "date" -> "object"
    [] OTHER -> v.t

\* v is falsy / truthy as a condition
Truthy(v) ==
  CASE v.t = "undefined" -> FALSE
    [] v.t = "null" -> FALSE
    [] v.t = "boolean" -> v.b
    [] v.t = "string" -> v.s # ""
    [] v.t = "number" -> v.n # 0
    [] OTHER -> TRUE

\* reading a property of undefined or null raises a TypeError
Nullish(v) == v.t \in {"undefined", "null"}

\* Object.prototype.hasOwnProperty.call(o, k) for a non-nullish o
HasOwn(o, k) == o.t = "object" /\ \E i \in 1..Len(o.e) : o.e[i].k = k

\* o[k] for a non-nullish o
Get(o, k) ==
  IF HasOwn(o, k)
  THEN o.e[CHOOSE i \in 1..Len(o.e) : o.e[i].k = k].v
  ELSE Undef

\* o[k] = v: an existing key keeps its place, a new key is appended
Set(o, k, v) ==
  IF HasOwn(o, k)
  THEN Obj([i \in 1..Len(o.e) |-> IF o.e[i].k = k THEN Entry(k, v) ELSE o.e[i]])
  ELSE Obj(Append(o.e, Entry(k, v)))

\* Object.entries(v) for a non-nullish v (a Date or a boolean has no own
\* enumerable property)
ObjectEntries(v) == IF v.t = "object" THEN v.e ELSE <<>>

\* the outcome of a stage: the descriptor as mutated so far, and whether the
\* stage handed it to next(params) or raised a TypeError
Forward(p) == [p |-> p, ok |-> TRUE]
Raise(p) == [p |-> p, ok |-> FALSE]

-----------------------------------------------------------------------------
(* Both editions: the composite-key flattening loop of the findUnique branch *)

\* the inner loop: every entry of a grouping is written one level up
RECURSIVE HoistEntries(_, _)
HoistEntries(subargs, where) ==
  IF subargs = <<>>
  THEN where
  ELSE HoistEntries(Tail(subargs), Set(where, Head(subargs).k, Head(subargs).v))

\* the outer loop over Object.entries(where): an entry whose typeof is not
\* "object" is put back, any other is handed to Object.entries and hoisted;
\* Object.entries(null) raises, leaving the predicate as rebuilt so far
RECURSIVE FlattenWhere(_, _)
FlattenWhere(args, where) ==
  IF args = <<>>
  THEN [w |-> where, ok |-> TRUE]
  ELSE LET arg == Head(args) IN
       IF TypeOf(arg.v) # "object"
       THEN FlattenWhere(Tail(args), Set(where, arg.k, arg.v))
       ELSE IF Nullish(arg.v)
            THEN [w |-> where, ok |-> FALSE]
            ELSE FlattenWhere(Tail(args), HoistEntries(ObjectEntries(arg.v), where))

-----------------------------------------------------------------------------
(* Edition part_000 *)

skipList == <<"expand", "organization", "parentOrganization">>

\* skipList.findIndex(val => val === name) !== -1
InSkipList(name) == \E i \in 1..Len(skipList) : skipList[i] = name

\* the tombstone data written by the delete stage
TombstoneData == Obj(<<Entry("isDeleted", Bool(TRUE)), Entry("deletedAt", Now)>>)

\* a findUnique branch that flattens the predicate and adds no tombstone clause
LookupFindUniqueUnfiltered(p) ==
  LET p1 == [p EXCEPT !.action = "findFirst"] IN
  IF Nullish(p1.args)
  THEN Raise(p1)
  ELSE LET where == Get(p1.args, "where")
           p2 == [p1 EXCEPT !.args = Set(p1.args, "where", EmptyObj)]
       IN IF Nullish(where)
          THEN Raise(p2)
          ELSE LET r == FlattenWhere(ObjectEntries(where), EmptyObj) IN
               IF ~r.ok
               THEN Raise([p2 EXCEPT !.args = Set(p2.args, "where", r.w)])
               ELSE Forward([p2 EXCEPT !.args = Set(p2.args, "where", r.w)])

\* the findUnique branch of the lookup stage
LookupFindUnique(p) ==
  LET p1 == [p EXCEPT !.action = "findFirst"] IN
  IF Nullish(p1.args)
  THEN Raise(p1)
  ELSE LET where == Get(p1.args, "where")
           p2 == [p1 EXCEPT !.args = Set(p1.args, "where", EmptyObj)]
       IN IF Nullish(where)
          THEN Raise(p2)
          ELSE LET r == FlattenWhere(ObjectEntries(where), EmptyObj) IN
               IF ~r.ok
               THEN Raise([p2 EXCEPT !.args = Set(p2.args, "where", r.w)])
               ELSE Forward([p2 EXCEPT !.args =
                      Set(p2.args, "where", Set(r.w, "isDeleted", Bool(FALSE)))])

\* a findMany branch that shares the flattening of the findUnique branch
LookupFindManyFlattening(p) ==
  LET r == LookupFindUnique(p) IN [r EXCEPT !.p.action = "findMany"]

\* the findMany branch of the lookup stage
LookupFindMany(p) ==
  LET p1 == IF Truthy(p.args) THEN p ELSE [p EXCEPT !.args = EmptyObj]
      where == Get(p1.args, "where")
  IN IF where # Undef
     THEN IF Nullish(where)
          THEN Raise(p1)
          ELSE IF Get(where, "isDeleted") = Undef
               THEN Forward([p1 EXCEPT !.args =
                      Set(p1.args, "where", Set(where, "isDeleted", Bool(FALSE)))])
               ELSE Forward(p1)
     ELSE Forward([p1 EXCEPT !.args =
            Set(p1.args, "where", Obj(<<Entry("isDeleted", Bool(FALSE))>>))])

\* first $use callback: lookups
LookupStage(p) ==
  IF InSkipList(p.model)
  THEN Forward(p)
  ELSE LET r == IF p.action = "findUnique" THEN LookupFindUnique(p) ELSE Forward(p) IN
       IF ~r.ok
       THEN r
       ELSE IF r.p.action = "findMany" THEN LookupFindMany(r.p) ELSE r

\* a delete branch that merges the tombstone fields into the caller's data
DeleteRewriteMerging(p) ==
  LET p1 == [p EXCEPT !.action = "update"] IN
  IF Nullish(p1.args)
  THEN Raise(p1)
  ELSE LET data == Get(p1.args, "data") IN
       IF ~Nullish(data)
       THEN Forward([p1 EXCEPT !.args = Set(p1.args, "data",
              Set(Set(data, "isDeleted", Bool(TRUE)), "deletedAt", Now))])
       ELSE Forward([p1 EXCEPT !.args = Set(p1.args, "data", TombstoneData)])

\* the delete branch of the delete stage
DeleteRewrite(p) ==
  LET p1 == [p EXCEPT !.action = "update"] IN
  IF Nullish(p1.args)
  THEN Raise(p1)
  ELSE Forward([p1 EXCEPT !.args = Set(p1.args, "data", TombstoneData)])

\* a deleteMany branch that replaces the caller's data
DeleteManyRewriteReplacing(p) ==
  LET p1 == IF Truthy(p.args) THEN p ELSE [p EXCEPT !.args = EmptyObj]
      p2 == [p1 EXCEPT !.action = "updateMany"]
  IN Forward([p2 EXCEPT !.args = Set(p2.args, "data", TombstoneData)])

\* the deleteMany branch of the delete stage
DeleteManyRewrite(p) ==
  LET p1 == IF Truthy(p.args) THEN p ELSE [p EXCEPT !.args = EmptyObj]
      p2 == [p1 EXCEPT !.action = "updateMany"]
      data == Get(p2.args, "data")
  IN IF ~Nullish(data)
     THEN Forward([p2 EXCEPT !.args = Set(p2.args, "data",
            Set(Set(data, "isDeleted", Bool(TRUE)), "deletedAt", Now))])
     ELSE Forward([p2 EXCEPT !.args = Set(p2.args, "data", TombstoneData)])

\* second $use callback: deletions
DeleteStage(p) ==
  IF InSkipList(p.model)
  THEN Forward(p)
  ELSE LET r == IF p.action = "delete" THEN DeleteRewrite(p) ELSE Forward(p) IN
       IF ~r.ok
       THEN r
       ELSE IF r.p.action = "deleteMany" THEN DeleteManyRewrite(r.p) ELSE r

\* a loop body that replaces an element's where instead of merging into it
IncludeElementOverwriting(element) ==
  IF ~Truthy(element)
  THEN [v |-> element, ok |-> TRUE]
  ELSE IF TypeOf(element) = "boolean"
       THEN [v |-> Obj(<<Entry("where", Obj(<<Entry("isDeleted", Bool(FALSE))>>))>>),
             ok |-> TRUE]
       ELSE IF element.t # "object"
            THEN [v |-> element, ok |-> TRUE]
            ELSE IF HasOwn(element, "where") /\ Nullish(Get(element, "where"))
                 THEN [v |-> element, ok |-> FALSE]
                 ELSE IF HasOwn(element, "where")
                         /\ HasOwn(Get(element, "where"), "isDeleted")
                      THEN [v |-> element, ok |-> TRUE]
                      ELSE [v |-> Set(element, "where",
                                      Obj(<<Entry("isDeleted", Bool(FALSE))>>)),
                            ok |-> TRUE]

\* the body of the for-in loop for one include key: the new include[key],
\* or a TypeError from hasOwnProperty.call on a nullish element.where
IncludeElement(element) ==
  IF ~Truthy(element)
  THEN [v |-> element, ok |-> TRUE]
  ELSE IF TypeOf(element) = "boolean"
       THEN [v |-> Obj(<<Entry("where", Obj(<<Entry("isDeleted", Bool(FALSE))>>))>>),
             ok |-> TRUE]
       ELSE IF TypeOf(element) = "object"
            THEN IF ~HasOwn(element, "where")
                 THEN [v |-> IF element.t = "object"
                             THEN Set(element, "where",
                                      Obj(<<Entry("isDeleted", Bool(FALSE))>>))
                             ELSE Obj(<<Entry("where",
                                      Obj(<<Entry("isDeleted", Bool(FALSE))>>))>>),
                       ok |-> TRUE]
                 ELSE IF Nullish(Get(element, "where"))
                      THEN [v |-> element, ok |-> FALSE]
                      ELSE IF ~HasOwn(Get(element, "where"), "isDeleted")
                           THEN [v |-> Set(element, "where",
                                   IF Get(element, "where").t = "object"
                                   THEN Set(Get(element, "where"), "isDeleted", Bool(FALSE))
                                   ELSE Obj(<<Entry("isDeleted", Bool(FALSE))>>)),
                                 ok |-> TRUE]
                           ELSE [v |-> element, ok |-> TRUE]
            ELSE [v |-> element, ok |-> TRUE]

\* the for-in loop over the keys of include, from position i on
RECURSIVE IncludeLoop(_, _)
IncludeLoop(include, i) ==
  IF i > Len(include.e)
  THEN [v |-> include, ok |-> TRUE]
  ELSE LET key == include.e[i].k IN
       IF InSkipList(key)
       THEN IncludeLoop(include, i + 1)
       ELSE LET r == IncludeElement(include.e[i].v) IN
            IF ~r.ok
            THEN [v |-> include, ok |-> FALSE]
            ELSE IncludeLoop(Set(include, key, r.v), i + 1)

\* third $use callback: includes ({include} = params.args raises on absent args)
IncludeStage(p) ==
  IF Nullish(p.args)
  THEN Raise(p)
  ELSE LET include == Get(p.args, "include") IN
       IF ~Truthy(include) \/ include.t # "object"
       THEN Forward(p)
       ELSE LET r == IncludeLoop(include, 1)
                p1 == [p EXCEPT !.args = Set(p.args, "include", r.v)]
            IN IF r.ok THEN Forward(p1) ELSE Raise(p1)

-----------------------------------------------------------------------------
(* Edition middleware.ts *)

\* the findUnique branch of the lookup stage
LookupFindUniqueTs(p) ==
  LET p1 == [p EXCEPT !.action = "findFirst"] IN
  IF Nullish(p1.args)
  THEN Raise(p1)
  ELSE LET where == Get(p1.args, "where")
           p2 == [p1 EXCEPT !.args = Set(p1.args, "where", EmptyObj)]
       IN IF Nullish(where)
          THEN Raise(p2)
          ELSE LET r == FlattenWhere(ObjectEntries(where), EmptyObj) IN
               IF ~r.ok
               THEN Raise([p2 EXCEPT !.args = Set(p2.args, "where", r.w)])
               ELSE Forward([p2 EXCEPT !.args =
                      Set(p2.args, "where", Set(r.w, "deletedAt", Null))])

\* the findMany branch of the lookup stage (== and != are the loose
\* comparisons: null counts as undefined)
LookupFindManyTs(p) ==
  LET p1 == IF Truthy(p.args) THEN p ELSE [p EXCEPT !.args = EmptyObj]
      where == Get(p1.args, "where")
  IN IF ~Nullish(where)
     THEN IF Nullish(Get(where, "deletedAt"))
          THEN Forward([p1 EXCEPT !.args =
                 Set(p1.args, "where", Set(where, "deletedAt", Null))])
          ELSE Forward(p1)
     ELSE Forward([p1 EXCEPT !.args =
            Set(p1.args, "where", Obj(<<Entry("deletedAt", Null)>>))])

\* first $use callback: lookups
LookupStageTs(p) ==
  LET r == IF p.action = "findUnique" THEN LookupFindUniqueTs(p) ELSE Forward(p) IN
  IF ~r.ok
  THEN r
  ELSE IF r.p.action = "findMany" THEN LookupFindManyTs(r.p) ELSE r

\* second $use callback: updates are stamped with updatedAt
UpdateStampStageTs(p) ==
  IF p.action \in {"updateMany", "update"}
  THEN LET p1 == IF Truthy(p.args) THEN p ELSE [p EXCEPT !.args = EmptyObj]
           data == IF Truthy(Get(p1.args, "data")) THEN Get(p1.args, "data") ELSE EmptyObj
       IN Forward([p1 EXCEPT !.args = Set(p1.args, "data", Set(data, "updatedAt", Now))])
  ELSE Forward(p)

\* the delete branch of the delete stage
DeleteRewriteTs(p) ==
  LET p1 == [p EXCEPT !.action = "update"] IN
  IF Nullish(p1.args)
  THEN Raise(p1)
  ELSE Forward([p1 EXCEPT !.args =
         Set(p1.args, "data", Obj(<<Entry("deletedAt", Now)>>))])

\* the deleteMany branch of the delete stage
DeleteManyRewriteTs(p) ==
  LET p1 == IF Truthy(p.args) THEN p ELSE [p EXCEPT !.args = EmptyObj]
      p2 == [p1 EXCEPT !.action = "updateMany"]
      data == Get(p2.args, "data")
  IN IF ~Nullish(data)
     THEN Forward([p2 EXCEPT !.args = Set(p2.args, "data", Set(data, "deletedAt", Now))])
     ELSE Forward([p2 EXCEPT !.args =
            Set(p2.args, "data", Obj(<<Entry("deletedAt", Now)>>))])

\* third $use callback: deletions (two consecutive ifs on params.action)
DeleteStageTs(p) ==
  LET r == IF p.action = "delete" THEN DeleteRewriteTs(p) ELSE Forward(p) IN
  IF ~r.ok
  THEN r
  ELSE IF r.p.action = "deleteMany" THEN DeleteManyRewriteTs(r.p) ELSE r

-----------------------------------------------------------------------------
(* The query executor behind the chain (the Prisma engine, outside the     *)
(* repository): a table per model whose rows carry the key column and the  *)
(* tombstone columns the middleware requires; other columns are not        *)
(* tracked.  A predicate is a conjunction of column = value tests.         *)

\* rows the store may hold at once
MaxRows == 2

Editions == {"middleware.ts", "part_000"}

Columns(ed) ==
  IF ed = "part_000" THEN {"id", "isDeleted", "deletedAt"} ELSE {"id", "deletedAt"}

\* the row a create stores: the key from data, tombstone columns at their
\* schema defaults unless data sets them
NewRow(ed, data) ==
  LET col(k, dflt) == IF HasOwn(data, k) THEN Get(data, k) ELSE dflt IN
  IF ed = "part_000"
  THEN Obj(<<Entry("id", Get(data, "id")),
             Entry("isDeleted", col("isDeleted", Bool(FALSE))),
             Entry("deletedAt", col("deletedAt", Null))>>)
  ELSE Obj(<<Entry("id", Get(data, "id")),
             Entry("deletedAt", col("deletedAt", Null))>>)

\* the row is soft-deleted
Tombstoned(ed, row) ==
  IF ed = "part_000"
  THEN Get(row, "isDeleted") = Bool(TRUE)
  ELSE Get(row, "deletedAt") # Null

\* row satisfies the where predicate (an undefined test is no test)
Matches(ed, row, where) ==
  \/ Nullish(where)
  \/ /\ where.t = "object"
     /\ \A i \in 1..Len(where.e) :
          \/ where.e[i].v = Undef
          \/ /\ where.e[i].k \in Columns(ed)
             /\ Get(row, where.e[i].k) = where.e[i].v

\* data applied to a row: the tombstone columns it sets (the key is fixed)
RECURSIVE ApplyData(_, _, _)
ApplyData(ed, row, entries) ==
  IF entries = <<>>
  THEN row
  ELSE LET e == Head(entries) IN
       ApplyData(ed,
                 IF e.k \in Columns(ed) \ {"id"} /\ e.v # Undef
                 THEN Set(row, e.k, e.v)
                 ELSE row,
                 Tail(entries))

\* the executor on a descriptor: the store afterwards and the rows returned
Execute(ed, st, p) ==
  LET args == IF Nullish(p.args) THEN EmptyObj ELSE p.args
      where == Get(args, "where")
      data == Get(args, "data")
      hit == {r \in st : r.model = p.model /\ Matches(ed, r.row, where)}
  IN CASE p.action = "create" ->
            IF /\ data.t = "object"
               /\ Get(data, "id").t = "number"
               /\ Cardinality(st) < MaxRows
               /\ \A r \in st : ~(r.model = p.model /\ Get(r.row, "id") = Get(data, "id"))
            THEN [store |-> st \cup {[model |-> p.model, row |-> NewRow(ed, data)]},
                  result |-> {NewRow(ed, data)}]
            ELSE [store |-> st, result |-> {}]
       [] p.action \in {"update", "updateMany"} ->
            [store |-> (st \ hit) \cup
                       {[model |-> r.model,
                         row |-> ApplyData(ed, r.row, ObjectEntries(data))] : r \in hit},
             result |-> {}]
       [] p.action \in {"delete", "deleteMany"} ->
            [store |-> st \ hit, result |-> {}]
       [] p.action \in {"findUnique", "findFirst", "findMany"} ->
            [store |-> st, result |-> {r.row : r \in hit}]
       [] OTHER -> [store |-> st, result |-> {}]

-----------------------------------------------------------------------------
(* The calls a client issues *)

\* times one descriptor object is sent through the chain (1 = no reuse)
MaxPasses == 2

Models == {"user", "organization"}

Actions ==
  {"create", "findUnique", "findMany", "update", "updateMany", "delete", "deleteMany"}

\* the tombstone column an edition filters on, its value on a live row, and
\* a value a caller uses to ask for soft-deleted rows
TombKey(ed) == IF ed = "part_000" THEN "isDeleted" ELSE "deletedAt"
LiveValue(ed) == IF ed = "part_000" THEN Bool(FALSE) ELSE Null
DeadValue(ed) == IF ed = "part_000" THEN Bool(TRUE) ELSE Now

\* where: absent, empty, scalar keys, an explicit tombstone clause, composite
\* groupings (one holding the tombstone column, one colliding with a scalar
\* key), a null entry, a nested relation filter
WhereOptions(ed) ==
  { Undef,
    EmptyObj,
    Obj(<<Entry("id", Num(1))>>),
    Obj(<<Entry("id", Num(2))>>),
    Obj(<<Entry("id", Num(1)), Entry(TombKey(ed), DeadValue(ed))>>),
    Obj(<<Entry("id_" \o TombKey(ed),
                Obj(<<Entry("id", Num(2)), Entry(TombKey(ed), DeadValue(ed))>>))>>),
    Obj(<<Entry("id", Num(1)),
          Entry("id_slug", Obj(<<Entry("id", Num(2)), Entry("slug", Str("a"))>>))>>),
    Obj(<<Entry("id", Null)>>),
    Obj(<<Entry("author", Obj(<<Entry("is", Obj(<<Entry("id", Num(1))>>))>>))>>) }

\* data: absent, empty, a new row's key, a caller field, a caller field next
\* to a tombstone column set to its live value
DataOptions(ed) ==
  { Undef,
    EmptyObj,
    Obj(<<Entry("id", Num(1))>>),
    Obj(<<Entry("id", Num(2))>>),
    Obj(<<Entry("title", Str("a"))>>),
    Obj(<<Entry(TombKey(ed), LiveValue(ed)), Entry("title", Str("a"))>>) }

\* include: absent, a flag, a structured inclusion with and without where,
\* with and without a tombstone clause, a skip-listed relation
IncludeOptions(ed) ==
  { Undef,
    Obj(<<Entry("posts", Bool(TRUE))>>),
    Obj(<<Entry("posts", Bool(FALSE))>>),
    Obj(<<Entry("posts", Obj(<<Entry("take", Num(1))>>))>>),
    Obj(<<Entry("posts", Obj(<<Entry("where", Obj(<<Entry("title", Str("a"))>>)),
                               Entry("take", Num(1))>>))>>),
    Obj(<<Entry("posts", Obj(<<Entry("where",
            Obj(<<Entry("isDeleted", Bool(TRUE))>>))>>))>>),
    Obj(<<Entry("organization", Bool(TRUE)), Entry("posts", Bool(TRUE))>>) }

\* the arguments object holding the given parts (an absent part is no key)
MkArgs(where, data, include) ==
  Obj((IF where = Undef THEN <<>> ELSE <<Entry("where", where)>>) \o
      (IF data = Undef THEN <<>> ELSE <<Entry("data", data)>>) \o
      (IF include = Undef THEN <<>> ELSE <<Entry("include", include)>>))

\* arguments: none at all, or where and data, or where and include
ArgsOptions(ed) ==
  {Undef}
    \cup {MkArgs(w, d, Undef) : w \in WhereOptions(ed), d \in DataOptions(ed)}
    \cup {MkArgs(w, Undef, i) : w \in WhereOptions(ed), i \in IncludeOptions(ed)}

Calls(ed) == [model : Models, action : Actions, args : ArgsOptions(ed)]

\* no descriptor
NoCall == [model |-> "", action |-> "", args |-> Undef]

-----------------------------------------------------------------------------
(* The chain *)

Init ==
  /\ variant \in Editions
  /\ pc = "idle"
  /\ params = NoCall
  /\ orig = NoCall
  /\ prev = NoCall
  /\ pass = 0
  /\ store = {}
  /\ result = {}

\* a client calls prisma.<model>.<action>(args)
Issue ==
  /\ pc = "idle"
  /\ \E c \in Calls(variant) :
       /\ params' = c
       /\ orig' = c
  /\ prev' = NoCall
  /\ pass' = 1
  /\ pc' = "lookup"
  /\ result' = {}
  /\ UNCHANGED <<variant, store>>

\* a client repeats its last call with the same arguments: the object it
\* passed, which the chain rewrote in place (also when a callback raised), or
\* again none when it passed none (arguments a callback created live in the
\* per-call descriptor only)
Reissue ==
  /\ pc \in {"returned", "thrown"}
  /\ pass < MaxPasses
  /\ prev' = params
  /\ params' = [model |-> orig.model,
                action |-> orig.action,
                args |-> IF orig.args = Undef THEN Undef ELSE params.args]
  /\ pass' = pass + 1
  /\ pc' = "lookup"
  /\ result' = {}
  /\ UNCHANGED <<variant, orig, store>>

\* a callback ran: the descriptor as it left it, at the next callback or thrown
Step(r, nextPc) ==
  /\ params' = r.p
  /\ pc' = IF r.ok THEN nextPc ELSE "thrown"
  /\ UNCHANGED <<variant, orig, prev, pass, store, result>>

Lookup ==
  /\ pc = "lookup"
  /\ IF variant = "part_000"
     THEN Step(LookupStage(params), "delete")
     ELSE Step(LookupStageTs(params), "stamp")

UpdateStamp ==
  /\ pc = "stamp"
  /\ Step(UpdateStampStageTs(params), "delete")

Delete ==
  /\ pc = "delete"
  /\ IF variant = "part_000"
     THEN Step(DeleteStage(params), "include")
     ELSE Step(DeleteStageTs(params), "executor")

Include ==
  /\ pc = "include"
  /\ Step(IncludeStage(params), "executor")

\* the last next(params): the executor runs the descriptor
Executor ==
  /\ pc = "executor"
  /\ LET x == Execute(variant, store, params) IN
       /\ store' = x.store
       /\ result' = x.result
  /\ pc' = "returned"
  /\ UNCHANGED <<variant, params, orig, prev, pass>>

\* the call settles (with the executor's answer or the TypeError) and the
\* client drops the descriptor
Return ==
  /\ pc \in {"returned", "thrown"}
  /\ pc' = "idle"
  /\ params' = NoCall
  /\ orig' = NoCall
  /\ prev' = NoCall
  /\ pass' = 0
  /\ result' = {}
  /\ UNCHANGED <<variant, store>>

Next ==
  Issue \/ Reissue \/ Lookup \/ UpdateStamp \/ Delete \/ Include \/ Executor \/ Return

Spec == Init /\ [][Next]_vars

-----------------------------------------------------------------------------
(* Properties *)

\* the model is exempt from rewriting in this edition (middleware.ts has no
\* skip list)
SkipListed(ed, model) == ed = "part_000" /\ InSkipList(model)

\* the arguments the client handed to the call now in the chain
CallerArgs == IF pass <= 1 \/ orig.args = Undef THEN orig.args ELSE prev.args

\* a part of an arguments value that may be absent altogether
Part(args, k) == IF Nullish(args) THEN Undef ELSE Get(args, k)

\* the keys of an object
Keys(o) == {o.e[i].k : i \in 1..Len(o.e)}

\* the tombstone fields of an edition and the data a soft delete writes
TombFields(ed) == IF ed = "part_000" THEN {"isDeleted", "deletedAt"} ELSE {"deletedAt"}
SoftDeleteData(ed) ==
  IF ed = "part_000"
  THEN Obj(<<Entry("isDeleted", Bool(TRUE)), Entry("deletedAt", Now)>>)
  ELSE Obj(<<Entry("deletedAt", Now)>>)

\* the (model, key) pairs of the rows in a store
RowIds(st) == {<<r.model, Get(r.row, "id")>> : r \in st}

\* C1, first half: a findUnique on a model that is not skip-listed never gets
\* a soft-deleted row back from the executor.
C1_NoTombstonedMatch ==
  (pc = "returned" /\ orig.action = "findUnique" /\ ~SkipListed(variant, orig.model))
    => \A row \in result : ~Tombstoned(variant, row)

\* C1, second half: no step removes a row of a model that is not skip-listed
\* from the store (a delete or deleteMany leaves the row in place).
C1_RowKept ==
  \A r \in store :
    ~SkipListed(variant, r.model) => <<r.model, Get(r.row, "id")>> \in RowIds(store')

\* C1: after any sequence of calls through the chain, a findUnique whose key
\* identifies a soft-deleted row of a model that is not skip-listed returns no
\* match, and the row is still physically in the store.
C1_SoftDeletedInvisible == [](C1_NoTombstonedMatch) /\ [][C1_RowKept]_vars

\* C1 witness: a findUnique by key has returned nothing although the store
\* holds a soft-deleted row of that model with that key.
C1_Witness ==
  /\ pc = "returned"
  /\ orig.action = "findUnique"
  /\ orig.model = "user"
  /\ Part(orig.args, "where") = Obj(<<Entry("id", Num(1))>>)
  /\ result = {}
  /\ \E r \in store :
       /\ r.model = "user"
       /\ Get(r.row, "id") = Num(1)
       /\ Tombstoned(variant, r.row)

\* C2: a delete on a model that is not skip-listed reaches the executor as an
\* update with the caller's where and with data holding exactly the tombstone
\* fields (no caller data, no updatedAt stamp); the executor never receives a
\* delete for such a model.
C2_DeleteBecomesUpdate ==
  (pc = "executor" /\ ~SkipListed(variant, params.model))
    => /\ params.action # "delete"
       /\ orig.action = "delete"
            => /\ params.action = "update"
               /\ Part(params.args, "where") = Part(CallerArgs, "where")
               /\ Part(params.args, "data") = SoftDeleteData(variant)

\* C2 witness: a delete that carried caller data is at the executor as an
\* update, in the edition that stamps updates.
C2_Witness ==
  /\ pc = "executor"
  /\ variant = "middleware.ts"
  /\ orig.action = "delete"
  /\ pass = 1
  /\ HasOwn(Part(orig.args, "data"), "title")
  /\ Part(orig.args, "where") = Obj(<<Entry("id", Num(1))>>)
  /\ params.action = "update"

\* C3: a deleteMany on a model that is not skip-listed reaches the executor as
\* an updateMany with the caller's where; its data sets the tombstone fields,
\* keeps every other field the caller set, and holds only the tombstone fields
\* when the caller gave no arguments or no data.
C3_DeleteManyBecomesUpdateMany ==
  (pc = "executor" /\ orig.action = "deleteMany" /\ ~SkipListed(variant, orig.model))
    => LET data == Part(params.args, "data")
           given == Part(CallerArgs, "data")
       IN /\ params.action = "updateMany"
          /\ Part(params.args, "where") = Part(CallerArgs, "where")
          /\ data.t = "object"
          /\ \A f \in TombFields(variant) : Get(data, f) = Get(SoftDeleteData(variant), f)
          /\ given.t = "object" =>
               \A i \in 1..Len(given.e) :
                 given.e[i].k \notin TombFields(variant)
                   => Get(data, given.e[i].k) = given.e[i].v
          /\ given = Undef => data = SoftDeleteData(variant)

\* C3 witness: a deleteMany whose data set a caller field and a tombstone
\* field is at the executor.
C3_Witness ==
  /\ pc = "executor"
  /\ orig.action = "deleteMany"
  /\ orig.model = "user"
  /\ pass = 1
  /\ HasOwn(Part(orig.args, "data"), "title")
  /\ HasOwn(Part(orig.args, "data"), TombKey(variant))
  /\ Get(Part(params.args, "data"), "title") = Str("a")

\* the lookup stage has handed the descriptor on
PastLookup == pc \in {"stamp", "delete", "include", "executor"}

\* an entry of a unique predicate is a composite-key grouping
IsGrouping(v) == v.t = "object"

\* the entries a unique predicate writes at top level: its scalar entries and
\* the inner entries of its groupings
WrittenEntries(where) ==
  {where.e[i] : i \in {j \in 1..Len(where.e) : ~IsGrouping(where.e[j].v)}}
    \cup UNION {{where.e[i].v.e[n] : n \in 1..Len(where.e[i].v.e)} :
                  i \in {j \in 1..Len(where.e) : IsGrouping(where.e[j].v)}}

\* no key is written twice with different values
CollisionFree(where) ==
  \A a, b \in WrittenEntries(where) : a.k = b.k => a.v = b.v

\* the value the caller's predicate gives the tombstone field, at top level
\* or inside a grouping (Undef when it gives none)
CallerTomb(ed, where) ==
  IF \E e \in WrittenEntries(where) : e.k = TombKey(ed)
  THEN (CHOOSE e \in WrittenEntries(where) : e.k = TombKey(ed)).v
  ELSE Undef

\* C4: a findUnique on a model that is not skip-listed leaves the lookup stage
\* as a findFirst whose where holds every scalar entry of the caller's
\* predicate unchanged, every inner entry of its groupings one level up, the
\* not-tombstoned clause, and no other key.  (Stated for predicates that write
\* no key twice and have no null entry.)
C4_FlattenedPredicate ==
  LET given == Part(orig.args, "where")
      where == Part(params.args, "where")
  IN (/\ PastLookup
      /\ pass = 1
      /\ orig.action = "findUnique"
      /\ ~SkipListed(variant, orig.model)
      /\ given.t = "object"
      /\ CollisionFree(given))
       => /\ params.action = "findFirst"
          /\ where.t = "object"
          /\ \A e \in WrittenEntries(given) : Get(where, e.k) = e.v
          /\ HasOwn(where, TombKey(variant))
          /\ CallerTomb(variant, given) = Undef
               => Get(where, TombKey(variant)) = LiveValue(variant)
          /\ Keys(where) = {e.k : e \in WrittenEntries(given)} \cup {TombKey(variant)}

\* C5: a call on a skip-listed model reaches the executor with the action and
\* the arguments the caller issued.  (Stated for calls that carry arguments.)
C5_SkipListedUnchanged ==
  (/\ pc = "executor"
   /\ pass = 1
   /\ SkipListed(variant, orig.model)
   /\ orig.args # Undef)
    => params = orig

\* C6: when the caller's where of a findUnique or findMany on a model that is
\* not skip-listed sets the tombstone field itself, the where that leaves the
\* lookup stage gives the tombstone field the caller's value.
C6_CallerTombstoneWins ==
  LET given == Part(orig.args, "where")
      explicit == IF orig.action = "findUnique"
                  THEN CallerTomb(variant, given)
                  ELSE Get(given, TombKey(variant))
  IN (/\ PastLookup
      /\ pass = 1
      /\ orig.action \in {"findUnique", "findMany"}
      /\ ~SkipListed(variant, orig.model)
      /\ given.t = "object"
      /\ CollisionFree(given)
      /\ explicit # Undef)
       => Get(Part(params.args, "where"), TombKey(variant)) = explicit

\* the include mapping the caller handed in, and the one at the executor
GivenInclude == Part(CallerArgs, "include")
SentInclude == Part(params.args, "include")

\* the not-tombstoned predicate the include stage writes
IncludeFilter == Obj(<<Entry("isDeleted", Bool(FALSE))>>)

\* C7: past the include stage every include key is still there; under a key
\* that is not skip-listed, true has become {where: {isDeleted: false}}, an
\* object without where keeps its fields and gains where = {isDeleted: false},
\* an object whose where lacks isDeleted keeps its fields and its where entries
\* and gains isDeleted: false, an object whose where sets isDeleted is
\* unchanged; false, and anything under a skip-listed key, is unchanged.
C7_IncludeRewritten ==
  (/\ pc = "executor"
   /\ variant = "part_000"
   /\ GivenInclude.t = "object")
    => /\ SentInclude.t = "object"
       /\ Keys(SentInclude) = Keys(GivenInclude)
       /\ \A i \in 1..Len(GivenInclude.e) :
            LET key == GivenInclude.e[i].k
                old == GivenInclude.e[i].v
                new == Get(SentInclude, key)
            IN CASE InSkipList(key) -> new = old
                 [] old = Bool(FALSE) -> new = old
                 [] old = Bool(TRUE) -> new = Obj(<<Entry("where", IncludeFilter)>>)
                 [] old.t = "object" /\ ~HasOwn(old, "where") ->
                      /\ Keys(new) = Keys(old) \cup {"where"}
                      /\ \A k \in Keys(old) : Get(new, k) = Get(old, k)
                      /\ Get(new, "where") = IncludeFilter
                 [] old.t = "object" /\ HasOwn(old, "where")
                      /\ ~HasOwn(Get(old, "where"), "isDeleted") ->
                      /\ Keys(new) = Keys(old)
                      /\ \A k \in Keys(old) \ {"where"} : Get(new, k) = Get(old, k)
                      /\ Keys(Get(new, "where")) =
                           Keys(Get(old, "where")) \cup {"isDeleted"}
                      /\ \A k \in Keys(Get(old, "where")) :
                           Get(Get(new, "where"), k) = Get(Get(old, "where"), k)
                      /\ Get(Get(new, "where"), "isDeleted") = Bool(FALSE)
                 [] OTHER -> new = old

\* C7 witness: an include that held a structured element with a where lacking
\* isDeleted is at the executor with the filter merged in.
C7_Witness ==
  /\ pc = "executor"
  /\ variant = "part_000"
  /\ pass = 1
  /\ Get(Get(GivenInclude, "posts"), "where") = Obj(<<Entry("title", Str("a"))>>)
  /\ Get(Get(Get(SentInclude, "posts"), "where"), "title") = Str("a")
  /\ Get(Get(Get(SentInclude, "posts"), "where"), "isDeleted") = Bool(FALSE)

\* a call has arguments missing: none at all, or no where, data or include
MissingPart(c) ==
  \/ c.args = Undef
  \/ \E k \in {"where", "data", "include"} : Part(c.args, k) = Undef

\* the caller's where has an entry whose value is null
HasNullEntry(where) ==
  where.t = "object" /\ \E i \in 1..Len(where.e) : where.e[i].v = Null

\* C8: a call whose arguments, or whose where, data or include, are absent
\* passes every stage without a stage raising.  (Stated for calls whose where
\* has no null entry.)
C8_MissingPartsTolerated ==
  (/\ pass = 1
   /\ MissingPart(orig)
   /\ ~HasNullEntry(Part(orig.args, "where")))
    => pc # "thrown"

\* C9: a findUnique on a model that is not skip-listed whose where has a null
\* entry passes the lookup stage without error, and the rebuilt where holds
\* that key with value null.
C9_NullEntryIsScalar ==
  LET given == Part(orig.args, "where") IN
  (/\ pass = 1
   /\ orig.action = "findUnique"
   /\ ~SkipListed(variant, orig.model)
   /\ HasNullEntry(given))
    => /\ pc # "thrown"
       /\ PastLookup =>
            \A i \in 1..Len(given.e) :
              given.e[i].v = Null
                => /\ HasOwn(Part(params.args, "where"), given.e[i].k)
                   /\ Get(Part(params.args, "where"), given.e[i].k) = Null

\* C10: a findMany on a model that is not skip-listed, sent through the chain
\* again with the descriptor the first run produced, reaches the executor
\* again, equal to that descriptor: same action, same where with one tombstone
\* clause, same include.
C10_ChainIdempotentOnFindMany ==
  (/\ pass >= 2
   /\ orig.action = "findMany"
   /\ ~SkipListed(variant, orig.model))
    => /\ pc # "thrown"
       /\ pc = "executor" =>
            /\ params = prev
            /\ Cardinality({i \in 1..Len(Get(params.args, "where").e) :
                 Get(params.args, "where").e[i].k = TombKey(variant)}) = 1

\* C10 witness: a findMany with an explicit caller tombstone clause and an
\* include flag is at the executor for the second time, as it was the first.
C10_Witness ==
  /\ pc = "executor"
  /\ pass = 2
  /\ orig.action = "findMany"
  /\ orig.model = "user"
  /\ Get(Part(orig.args, "where"), TombKey(variant)) = DeadValue(variant)
  /\ Get(Part(orig.args, "include"), "posts") = Bool(TRUE)
  /\ params = prev

====
